---------------------------- MODULE Spec2Model ----------------------------
(***************************************************************************)
(* The three per-step transition kernels of src/models.py                  *)
(* (stochastic_sir_model, stochastic_sirs_model, dthp_model) and the       *)
(* driver loop that calls one of them on its particle ensemble and feeds   *)
(* the returned table back in as the next input.                           *)
(*                                                                         *)
(* Numbers.  Compartment counts are floats in the code.  They are kept     *)
(* here as exact integers in units of 1/Unit, Unit a power of 80*52, so    *)
(* that the demographic terms mu*x*dt of the SIRS kernel are exact;        *)
(* rounding of the float arithmetic on fractions is not modelled.          *)
(* Rates (theta values) are integers in tenths: 1 is 0.1, 5 is 0.5.        *)
(* B and Rt live on a logarithmic grid: level 0 is the value 0.0, a level  *)
(* k >= 1 a positive value; multiplying by exp(..) > 0 moves the level.    *)
(* A random draw is a nondeterministic choice over the draw's support.     *)
(*                                                                         *)
(* Spec is the driver loop on a well-formed 1-D theta; SpecTheta is one    *)
(* kernel call on any rectangular theta with any list of distinct names.   *)
(***************************************************************************)
EXTENDS Integers, Sequences, FiniteSets

VARIABLES
    y,              \* caller's SIR/SIRS ensemble: rows [S, I, R, NI, B]
    state,          \* caller's Hawkes ensemble: rows [lm_I, C_I, Rt]
    theta,          \* parameter values: a sequence of rows (a scalar is a row of length 1)
    theta_names,    \* parameter names, parallel to theta
    observed_data,  \* observed_data['obs']: the observation history
    N,              \* total population handed to dthp_model
    call,           \* the locals of the last kernel call
    result          \* what the last kernel call returned or raised

vars == <<y, state, theta, theta_names, observed_data, N, call, result>>

----------------------------------------------------------------------------
(* Bounds of the model *)

MaxSirsCalls == 1
MaxPop == 2
MaxDt == 1
MaxLevel == 1
MaxT == 1
MaxObs == 1
MaxDraw == 2
MaxCum == 2
MaxNames == 2

(* Program constants *)

Lifespan == 80
PeriodsPerYear == 52
NuBetaDefault == 1
AlphaDefault == 0

MuInv == Lifespan * PeriodsPerYear

RECURSIVE Pow(_, _)
Pow(b, e) == IF e = 0 THEN 1 ELSE b * Pow(b, e - 1)

Unit == Pow(MuInv, MaxSirsCalls)

Sgn(x) == IF x > 0 THEN 1 ELSE IF x < 0 THEN -1 ELSE 0

Min2(a, b) == IF a <= b THEN a ELSE b
Max2(a, b) == IF a >= b THEN a ELSE b

----------------------------------------------------------------------------
(* Parameter handling: param = dict(zip(theta_names, theta)) *)

Names == {"gamma", "nu_beta", "alpha", "omega_I"}

\* zip stops at the shorter argument; iterating theta yields its rows
ZipLen(names, values) == Min2(Len(names), Len(values))

\* dict(...) of the pairs: a later pair with the same key wins
Dict(names, values) ==
    LET n == ZipLen(names, values)
        last(k) == CHOOSE i \in 1..n :
                       names[i] = k /\ \A j \in (i+1)..n : names[j] # k
    IN  [k \in {names[i] : i \in 1..n} |-> values[last(k)]]

\* faulty variant: param.get(key, 0.1) where the code subscripts
SubscriptOrDefault(param, key) ==
    IF key \in DOMAIN param THEN [ok |-> TRUE, val |-> param[key]]
    ELSE [ok |-> TRUE, val |-> <<NuBetaDefault>>]

\* param[key]: a KeyError when the key is absent
Subscript(param, key) ==
    IF key \in DOMAIN param THEN [ok |-> TRUE, val |-> param[key]]
    ELSE [ok |-> FALSE, val |-> <<>>]

\* param.get(key, default): the default is a scalar
Get(param, key, default) ==
    IF key \in DOMAIN param THEN param[key] ELSE <<default>>

\* numpy broadcasting of a parameter row against the P particles
Broadcastable(row, P) == Len(row) = 1 \/ Len(row) = P

\* the value particle p is advanced with
At(row, p) == IF Len(row) = 1 THEN row[1] ELSE row[p]

\* the row as broadcast to the P particles
Spread(row, P) == [p \in 1..P |-> At(row, p)]


----------------------------------------------------------------------------
(* What a call hands back *)

NoResult == [tag |-> "none", value |-> <<>>, error |-> ""]
Ok(table) == [tag |-> "ok", value |-> table, error |-> ""]
Raise(e) == [tag |-> "raise", value |-> <<>>, error |-> e]

\* the parameter values each particle is advanced with; <<>> for a
\* parameter the call did not get to use
NoneUsed == [gamma |-> <<>>, nu_beta |-> <<>>, alpha |-> <<>>, omega_I |-> <<>>]

NoCall == [fn |-> "none", dt |-> 0, t |-> 0, param |-> <<>>, used |-> NoneUsed,
           y_next |-> <<>>, lm |-> <<>>]

RECURSIVE Product(_)
\* all vectors that take their p-th entry from the p-th set
Product(sets) ==
    IF sets = <<>> THEN {<<>>}
    ELSE {<<h>> \o tl : h \in Head(sets), tl \in Product(Tail(sets))}

----------------------------------------------------------------------------
(* Pieces shared by the compartmental kernels *)

\* x.astype(int): truncation toward zero of a count kept in units of 1/Unit
AsInt(x) == IF x >= 0 THEN x \div Unit ELSE -((-x) \div Unit)

\* N = S + I + R
Pop(row) == row.S + row.I + row.R

\* P_SI = 1 - exp(-B * I / N * dt), by the sign of its value; 0/0 is nan
P_SI(row, dt) ==
    IF Pop(row) = 0 THEN "nan"
    ELSE IF Sgn(row.B) * Sgn(row.I) * Sgn(dt) * Sgn(Pop(row)) < 0 THEN "neg"
    ELSE IF Sgn(row.B) * Sgn(row.I) * Sgn(dt) = 0 THEN "zero"
    ELSE "pos"

\* 1 - exp(-rate * dt), by the sign of its value
P_Rate(rate, dt) ==
    IF rate * dt < 0 THEN "neg" ELSE IF rate * dt = 0 THEN "zero" ELSE "pos"

\* numpy's binomial(n, p) rejects n < 0 and p outside [0, 1] (nan included)
BinomialRaises(n, p) == n < 0 \/ p \in {"nan", "neg"}

\* the support of binomial(n, p); a positive p may round to 1.0
Binomial(n, p) == IF p = "zero" THEN {0} ELSE 0..n

\* level * exp(nu_beta * Z * dt), Z any real: 0.0 stays 0.0, and with
\* nu_beta * dt = 0 the factor is exp(0) = 1
Walk(level, nu_beta, dt) ==
    IF level = 0 \/ nu_beta * dt = 0 THEN {level}
    ELSE Max2(1, level - 1)..Min2(MaxLevel, level + 1)

\* faulty variant: the table returned as computed
NoClamp(row) == row

\* np.maximum(y_next, 0), row by row
Clamp(row) ==
    [S |-> Max2(row.S, 0), I |-> Max2(row.I, 0), R |-> Max2(row.R, 0),
     NI |-> Max2(row.NI, 0), B |-> Max2(row.B, 0)]

ClampAll(rows) == [p \in DOMAIN rows |-> Clamp(rows[p])]

----------------------------------------------------------------------------
(* stochastic_sir_model *)

\* faulty variant: R_next = R: the recovered are not added
SirNextLosesRecovered(row, d) ==
    [S  |-> row.S - d.Y_SI * Unit,
     I  |-> row.I + d.Y_SI * Unit - d.Y_IR * Unit,
     R  |-> row.R,
     NI |-> d.Y_SI * Unit,
     B  |-> d.B]

\* lines 56-65: the next row from the draws
SirNext(row, d) ==
    [S  |-> row.S - d.Y_SI * Unit,
     I  |-> row.I + d.Y_SI * Unit - d.Y_IR * Unit,
     R  |-> row.R + d.Y_IR * Unit,
     NI |-> d.Y_SI * Unit,
     B  |-> d.B]

\* the draws of one particle: Y_SI, Y_IR and the new B
SirDraws(row, gamma, nu_beta, dt) ==
    {[Y_SI |-> a, Y_IR |-> b, Y_RS |-> 0, B |-> c] :
        a \in Binomial(AsInt(row.S), P_SI(row, dt)),
        b \in Binomial(AsInt(row.I), P_Rate(gamma, dt)),
        c \in Walk(row.B, nu_beta, dt)}

SirRaises(rows, gamma, nu_beta, dt) ==
    \/ ~Broadcastable(gamma, Len(rows))
    \/ ~Broadcastable(nu_beta, Len(rows))
    \/ \E p \in DOMAIN rows :
          \/ BinomialRaises(AsInt(rows[p].S), P_SI(rows[p], dt))
          \/ BinomialRaises(AsInt(rows[p].I), P_Rate(At(gamma, p), dt))

stochastic_sir_model(dt) ==
    /\ y # <<>>
    /\ result.tag = "none"
    /\ LET param == Dict(theta_names, theta)
           rec == [fn |-> "sir", dt |-> dt, t |-> 0, param |-> param,
                   used |-> NoneUsed, y_next |-> <<>>, lm |-> <<>>]
           gamma == Subscript(param, "gamma")
           nu_beta == Get(param, "nu_beta", NuBetaDefault)
       IN  IF ~gamma.ok
           THEN /\ result' = Raise("KeyError")
                /\ call' = rec
           ELSE IF SirRaises(y, gamma.val, nu_beta, dt)
           THEN /\ result' = Raise("ValueError")
                /\ call' = rec
           ELSE \E d \in Product([p \in DOMAIN y |->
                        SirDraws(y[p], At(gamma.val, p), At(nu_beta, p), dt)]) :
                  LET y_next == [p \in DOMAIN y |-> SirNext(y[p], d[p])]
                  IN  /\ result' = Ok(ClampAll(y_next))
                      /\ call' = [rec EXCEPT
                                    !.y_next = y_next,
                                    !.used = [NoneUsed EXCEPT
                                       !.gamma = Spread(gamma.val, Len(y)),
                                       !.nu_beta = Spread(nu_beta, Len(y))]]
    /\ UNCHANGED <<y, state, theta, theta_names, observed_data, N>>

----------------------------------------------------------------------------
(* stochastic_sirs_model *)

\* mu * x * dt with mu = 1 / (80 * 52)
MuTimes(x, dt) == (x * dt) \div MuInv

\* whether mu * x * dt is a whole number of 1/Unit
Exact(x, dt) == (x * dt) % MuInv = 0

\* faulty variant: S_next without the births mu * (N - S) * dt
SirsNextNoBirths(row, d, dt) ==
    [S  |-> row.S - d.Y_SI * Unit + d.Y_RS * Unit,
     I  |-> row.I + d.Y_SI * Unit - d.Y_IR * Unit - MuTimes(row.I, dt),
     R  |-> row.R + d.Y_IR * Unit - MuTimes(row.R, dt) - d.Y_RS * Unit,
     NI |-> d.Y_SI * Unit,
     B  |-> d.B]

\* lines 125-134: the next row from the draws
SirsNext(row, d, dt) ==
    [S  |-> row.S - d.Y_SI * Unit + MuTimes(Pop(row) - row.S, dt) + d.Y_RS * Unit,
     I  |-> row.I + d.Y_SI * Unit - d.Y_IR * Unit - MuTimes(row.I, dt),
     R  |-> row.R + d.Y_IR * Unit - MuTimes(row.R, dt) - d.Y_RS * Unit,
     NI |-> d.Y_SI * Unit,
     B  |-> d.B]

SirsDraws(row, gamma, alpha, nu_beta, dt) ==
    {[Y_SI |-> a, Y_IR |-> b, Y_RS |-> r, B |-> c] :
        a \in Binomial(AsInt(row.S), P_SI(row, dt)),
        b \in Binomial(AsInt(row.I), P_Rate(gamma, dt)),
        r \in Binomial(AsInt(row.R), P_Rate(alpha, dt)),
        c \in Walk(row.B, nu_beta, dt)}

SirsRaises(rows, gamma, alpha, nu_beta, dt) ==
    \/ ~Broadcastable(gamma, Len(rows))
    \/ ~Broadcastable(alpha, Len(rows))
    \/ ~Broadcastable(nu_beta, Len(rows))
    \/ \E p \in DOMAIN rows :
          \/ BinomialRaises(AsInt(rows[p].S), P_SI(rows[p], dt))
          \/ BinomialRaises(AsInt(rows[p].I), P_Rate(At(gamma, p), dt))
          \/ BinomialRaises(AsInt(rows[p].R), P_Rate(At(alpha, p), dt))

stochastic_sirs_model(dt) ==
    /\ y # <<>>
    /\ result.tag = "none"
    /\ \A p \in DOMAIN y : /\ Exact(Pop(y[p]) - y[p].S, dt)
                           /\ Exact(y[p].I, dt)
                           /\ Exact(y[p].R, dt)
    /\ LET param == Dict(theta_names, theta)
           rec == [fn |-> "sirs", dt |-> dt, t |-> 0, param |-> param,
                   used |-> NoneUsed, y_next |-> <<>>, lm |-> <<>>]
           gamma == Subscript(param, "gamma")
           alpha == Get(param, "alpha", AlphaDefault)
           nu_beta == Subscript(param, "nu_beta")
       IN  IF ~gamma.ok \/ ~nu_beta.ok
           THEN /\ result' = Raise("KeyError")
                /\ call' = rec
           ELSE IF SirsRaises(y, gamma.val, alpha, nu_beta.val, dt)
           THEN /\ result' = Raise("ValueError")
                /\ call' = rec
           ELSE \E d \in Product([p \in DOMAIN y |->
                        SirsDraws(y[p], At(gamma.val, p), At(alpha, p),
                                  At(nu_beta.val, p), dt)]) :
                  LET y_next == [p \in DOMAIN y |-> SirsNext(y[p], d[p], dt)]
                  IN  /\ result' = Ok(ClampAll(y_next))
                      /\ call' = [rec EXCEPT
                                    !.y_next = y_next,
                                    !.used = [NoneUsed EXCEPT
                                       !.gamma = Spread(gamma.val, Len(y)),
                                       !.alpha = Spread(alpha, Len(y)),
                                       !.nu_beta = Spread(nu_beta.val, Len(y))]]
    /\ UNCHANGED <<y, state, theta, theta_names, observed_data, N>>

----------------------------------------------------------------------------
(* dthp_model *)

\* state.T.copy(): the kernel's own buffer, which the in-place operations
\* (fill, *=, +=) write to; "shared" says whether the caller's array is
\* the same memory
\* faulty variant: state.T: a view of the caller's array
TransposeView(arr) == [shared |-> TRUE, rows |-> arr]

TransposeCopy(arr) == [shared |-> FALSE, rows |-> arr]

\* what the caller's array holds once the buffer holds rows
CallerSees(buf, rows, arr) == IF buf.shared THEN rows ELSE arr

\* faulty variant: no reset: the accumulator carries the lambda_I passed in
KeepLm(lm) == lm

\* lm_I.fill(0)
Fill0(lm) == 0

RECURSIVE Accumulate(_, _, _, _, _)
\* the loop over ti in range(t), from ti on: lm_I += obs[ti] * kernel_values
\* with kernel_values = omega_I * (1 - omega_I) ** (t - ti - 1).
\* lm is kept in units of 10^-t (omega_I is in tenths).
Accumulate(lm, obs, omega_I, t, ti) ==
    IF ti >= t THEN lm
    ELSE Accumulate(lm + obs[ti + 1] * omega_I * Pow(10 - omega_I, t - ti - 1)
                          * Pow(10, ti),
                    obs, omega_I, t, ti + 1)

\* faulty variant: Rt * lm_I, without the depletion factor
PoissonMeanNoDepletion(C_I, Rt, lm, n) ==
    IF Sgn(Rt) * Sgn(lm) < 0 THEN "neg"
    ELSE IF Sgn(Rt) * Sgn(lm) = 0 THEN "zero"
    ELSE "pos"

\* (1 - C_I / N) * Rt * lm_I, by the sign of its value; x / 0 is inf or nan
PoissonMean(C_I, Rt, lm, n) ==
    IF n = 0 THEN "nan"
    ELSE IF Sgn(n - C_I) * Sgn(n) * Sgn(Rt) * Sgn(lm) < 0 THEN "neg"
    ELSE IF Sgn(n - C_I) * Sgn(Rt) * Sgn(lm) = 0 THEN "zero"
    ELSE "pos"

\* numpy's poisson(lam) rejects lam < 0 and nan
PoissonRaises(lam) == lam \in {"nan", "neg"}

\* the support of poisson(lam), cut at MaxDraw
Poisson(lam) == IF lam = "zero" THEN {0} ELSE 0..MaxDraw

dthp_model(t) ==
    /\ state # <<>>
    /\ result.tag = "none"
    /\ \A p \in DOMAIN state : state[p].C_I <= MaxCum
    /\ LET P == Len(state)
           buf == TransposeCopy(state)
           param == Dict(theta_names, theta)
           rec == [fn |-> "dthp", dt |-> 1, t |-> t, param |-> param,
                   used |-> NoneUsed, y_next |-> <<>>, lm |-> <<>>]
           omega_I == Subscript(param, "omega_I")
           nu_beta == Get(param, "nu_beta", NuBetaDefault)
           \* lm_I.fill(0)
           filled == [p \in 1..P |-> [buf.rows[p] EXCEPT !.lm_I = Fill0(@)]]
       IN  IF ~omega_I.ok
           THEN /\ result' = Raise("KeyError")
                /\ call' = rec
                /\ state' = state
           ELSE IF ~Broadcastable(nu_beta, P)
           THEN /\ result' = Raise("ValueError")
                /\ call' = rec
                /\ state' = CallerSees(buf, filled, state)
           ELSE \E rt \in Product([p \in 1..P |->
                           Walk(state[p].Rt, At(nu_beta, p), 1)]) :
             \* Rt *= np.exp(...)
             LET walked == [p \in 1..P |-> [filled[p] EXCEPT !.Rt = rt[p]]]
                 used == [NoneUsed EXCEPT !.nu_beta = Spread(nu_beta, P)]
             IN  IF t > 0 /\ ~Broadcastable(omega_I.val, P)
                 THEN /\ result' = Raise("ValueError")
                      /\ call' = [rec EXCEPT !.used = used]
                      /\ state' = CallerSees(buf, walked, state)
                 ELSE
                   \* the loop; lm_I is kept in units of 10^-t from here on
                   LET lm == [p \in 1..P |->
                               Accumulate(filled[p].lm_I * Pow(10, t), observed_data,
                                          IF t > 0 THEN At(omega_I.val, p) ELSE 0,
                                          t, 0)]
                       summed == [p \in 1..P |-> [walked[p] EXCEPT !.lm_I = lm[p]]]
                       lam == [p \in 1..P |->
                                PoissonMean(summed[p].C_I, summed[p].Rt, lm[p], N)]
                       used2 == IF t > 0
                                THEN [used EXCEPT !.omega_I = Spread(omega_I.val, P)]
                                ELSE used
                   IN  IF \E p \in 1..P : PoissonRaises(lam[p])
                       THEN /\ result' = Raise("ValueError")
                            /\ call' = [rec EXCEPT !.lm = lm, !.used = used2]
                            /\ state' = CallerSees(buf, summed, state)
                       ELSE \E lm_I \in Product([p \in 1..P |-> Poisson(lam[p])]) :
                         \* C_I += lm_I
                         LET added == [p \in 1..P |->
                                        [summed[p] EXCEPT !.C_I = @ + lm_I[p]]]
                         IN  /\ result' = Ok([p \in 1..P |->
                                    [lm_I |-> lm_I[p],
                                     C_I  |-> added[p].C_I,
                                     Rt   |-> added[p].Rt]])
                             /\ call' = [rec EXCEPT !.lm = lm, !.used = used2]
                             /\ state' = CallerSees(buf, added, state)
    /\ UNCHANGED <<y, theta, theta_names, observed_data, N>>

----------------------------------------------------------------------------
(* The driver: it feeds a returned table back in and extends the history *)

Feed ==
    /\ result.tag = "ok"
    /\ IF call.fn = "dthp"
       THEN state' = result.value /\ y' = y
       ELSE y' = result.value /\ state' = state
    /\ result' = NoResult
    /\ call' = NoCall
    /\ UNCHANGED <<theta, theta_names, observed_data, N>>

Observe ==
    /\ state # <<>>
    /\ result.tag = "none"
    /\ Len(observed_data) < MaxT
    /\ \E c \in 0..MaxObs : observed_data' = Append(observed_data, c)
    /\ UNCHANGED <<y, state, theta, theta_names, N, call, result>>

Next ==
    \/ \E dt \in 1..MaxDt : stochastic_sir_model(dt)
    \/ \E dt \in 1..MaxDt : stochastic_sirs_model(dt)
    \/ \E t \in 0..Len(observed_data) : dthp_model(t)
    \/ Feed
    \/ Observe

----------------------------------------------------------------------------
(* Initial states *)

ParticleCounts == {1, 2}
ThetaValues == {0, 5}

\* a particle of a compartmental ensemble: whole counts, N = S + I + R > 0,
\* no infections recorded yet, B positive
SirRows ==
    {[S |-> s * Unit, I |-> i * Unit, R |-> r * Unit, NI |-> 0, B |-> 1] :
        s \in 0..MaxPop, i \in 0..MaxPop, r \in 0..MaxPop}

RECURSIVE Total(_)
Total(rows) == IF rows = <<>> THEN 0 ELSE Pop(Head(rows)) + Total(Tail(rows))

\* MaxPop bounds the individuals of the whole ensemble
SirEnsembles ==
    UNION {{e \in [1..P -> SirRows] :
               /\ \A p \in 1..P : Pop(e[p]) >= Unit
               /\ Total(e) <= MaxPop * Unit} :
           P \in ParticleCounts}

DthpRows(n) ==
    {[lm_I |-> l, C_I |-> c, Rt |-> 1] : l \in 0..1, c \in 0..n}

DthpEnsembles(n) == UNION {[1..P -> DthpRows(n)] : P \in ParticleCounts}

\* the name lists a driver of the compartmental kernels / of the Hawkes
\* kernel passes
SirNameLists ==
    {<<>>, <<"gamma">>, <<"nu_beta">>, <<"gamma", "nu_beta">>,
     <<"gamma", "nu_beta", "alpha">>}

DthpNameLists == {<<>>, <<"omega_I">>, <<"nu_beta">>, <<"omega_I", "nu_beta">>}

\* a 1-D theta: one value per name
Theta1D(n) == {[i \in 1..n |-> <<v[i]>>] : v \in [1..n -> ThetaValues]}

InitCommon ==
    /\ call = NoCall
    /\ result = NoResult
    /\ observed_data = <<>>

Init ==
    /\ InitCommon
    /\ \/ /\ y \in SirEnsembles
          /\ state = <<>>
          /\ N = 0
          /\ theta_names \in SirNameLists
       \/ /\ y = <<>>
          /\ N = MaxPop
          /\ state \in DthpEnsembles(N)
          /\ theta_names \in DthpNameLists
    /\ theta \in Theta1D(Len(theta_names))

Spec == Init /\ [][Next]_vars

\* Initial states for the parameter handling: any rectangular theta (1-D:
\* rows of length 1; 2-D: rows of length 2) with any list of distinct
\* names, on ensembles that all start from one row.

NameLists(n) ==
    {s \in [1..n -> Names] : \A i, j \in 1..n : i # j => s[i] # s[j]}

Thetas(n) == UNION {[1..n -> [1..w -> ThetaValues]] : w \in ParticleCounts}

InitTheta ==
    /\ InitCommon
    /\ \E P \in ParticleCounts :
          \/ /\ y = [p \in 1..P |->
                       [S |-> Unit, I |-> Unit, R |-> 0, NI |-> 0, B |-> 1]]
             /\ state = <<>>
             /\ N = 0
          \/ /\ y = <<>>
             /\ N = MaxPop
             /\ state = [p \in 1..P |-> [lm_I |-> 0, C_I |-> 0, Rt |-> 1]]
    /\ \E n \in 0..MaxNames : theta_names \in NameLists(n)
    /\ \E n \in 0..MaxNames : theta \in Thetas(n)

\* one kernel call on each such input
NextOnce ==
    \/ \E dt \in 1..MaxDt : stochastic_sir_model(dt)
    \/ \E dt \in 1..MaxDt : stochastic_sirs_model(dt)
    \/ \E t \in 0..Len(observed_data) : dthp_model(t)
    \/ Observe

SpecTheta == InitTheta /\ [][NextOnce]_vars

----------------------------------------------------------------------------
(* Properties *)

Returned(fn) == result.tag = "ok" /\ call.fn = fn

CountsNonNeg(rows) ==
    \A p \in DOMAIN rows :
        rows[p].S >= 0 /\ rows[p].I >= 0 /\ rows[p].R >= 0 /\ rows[p].NI >= 0

HawkesNonNeg(rows) ==
    \A p \in DOMAIN rows : rows[p].lm_I >= 0 /\ rows[p].C_I >= 0

\* C1: every count column (S, I, R, NI; lambda_I, C_I) of every table a
\* kernel returns, and of every ensemble the driver then holds, is >= 0,
\* whatever the draws were.
C1_OutputsNonNegative ==
    /\ CountsNonNeg(y)
    /\ HawkesNonNeg(state)
    /\ result.tag = "ok" =>
          IF call.fn = "dthp" THEN HawkesNonNeg(result.value)
          ELSE CountsNonNeg(result.value)

\* C1 witness: the SIRS kernel returned a table in which the clamp acted
\* (I_next was negative before np.maximum).
C1_Witness ==
    /\ Returned("sirs")
    /\ \E p \in DOMAIN y : call.y_next[p].I < 0 /\ result.value[p].I = 0

\* C2: a row returned by stochastic_sir_model has the same S + I + R as the
\* row it was computed from, for every outcome of the binomial draws.
C2_SirConservesPopulation ==
    Returned("sir") =>
        \A p \in DOMAIN y : Pop(result.value[p]) = Pop(y[p])

\* C2 witness: a SIR step in which both flows moved individuals.
C2_Witness ==
    /\ Returned("sir")
    /\ \E p \in DOMAIN y : /\ result.value[p].NI > 0
                           /\ result.value[p].R > y[p].R
                           /\ result.value[p].S < y[p].S

AllZero(row) == \A i \in DOMAIN row : row[i] = 0

SirsNoWaningNoWalk ==
    /\ Returned("sirs")
    /\ AllZero(call.used.alpha)
    /\ AllZero(call.used.nu_beta)

\* what np.maximum(.., 0) adds to S + I + R of a row
Deficit(row) == Max2(0, -row.S) + Max2(0, -row.I) + Max2(0, -row.R)

\* C3 as stated: with alpha = 0 and nu_beta = 0 the returned
\* S_next + I_next + R_next of stochastic_sirs_model equals the input
\* S + I + R, after the final clamp, for every outcome of the draws.
C3_SirsSumAfterClamp ==
    SirsNoWaningNoWalk =>
        \A p \in DOMAIN y : Pop(result.value[p]) = Pop(y[p])

\* C3 amended: with alpha = 0 and nu_beta = 0 the sum before the clamp
\* equals the input S + I + R, and the returned sum is the input sum plus
\* what the clamp added: it equals the input sum exactly when no
\* compartment was negative before the clamp.
C3_SirsSumUpToClamp ==
    SirsNoWaningNoWalk =>
        \A p \in DOMAIN y :
            /\ Pop(call.y_next[p]) = Pop(y[p])
            /\ Pop(result.value[p]) = Pop(y[p]) + Deficit(call.y_next[p])

\* C3 witness: a SIRS step with alpha = 0, nu_beta = 0 in which deaths
\* left I and R and births entered S (mu-driven flows active).
C3_Witness ==
    /\ SirsNoWaningNoWalk
    /\ \E p \in DOMAIN y :
          /\ y[p].I > 0 /\ y[p].R > 0
          /\ call.y_next[p].I > 0
          /\ call.y_next[p].I % Unit # 0
          /\ call.y_next[p].S + call.y_next[p].NI > y[p].S
          /\ Deficit(call.y_next[p]) = 0

\* C4 as stated: C_I of every particle is <= N after every call of
\* dthp_model, so in every table it returns and every ensemble fed back.
C4_CumulativeAtMostN ==
    /\ \A p \in DOMAIN state : state[p].C_I <= N
    /\ Returned("dthp") => \A p \in DOMAIN state : result.value[p].C_I <= N

\* C5: a particle that enters dthp_model with C_I = N gets a Poisson mean
\* of 0, a drawn count lambda_I of 0 and its C_I back unchanged.
C5_FullDepletionAbsorbs ==
    Returned("dthp") =>
        \A p \in DOMAIN state :
            state[p].C_I = N =>
                /\ PoissonMean(state[p].C_I, result.value[p].Rt, call.lm[p], N) = "zero"
                /\ result.value[p].lm_I = 0
                /\ result.value[p].C_I = N

\* C5 witness: a fully depleted particle went through a call whose
\* accumulated intensity and Rt were positive.
C5_Witness ==
    /\ Returned("dthp")
    /\ \E p \in DOMAIN state :
          state[p].C_I = N /\ call.lm[p] > 0 /\ result.value[p].Rt > 0

\* C6: a kernel call leaves the caller's y / state, theta, theta_names and
\* observed_data as they were; the in-place operations of dthp_model do
\* not reach the caller's state array.
C6_InputsUntouched ==
    [][(result.tag = "none" /\ result'.tag # "none") =>
          /\ y' = y
          /\ state' = state
          /\ theta' = theta
          /\ theta_names' = theta_names
          /\ observed_data' = observed_data]_vars

\* C6 witness: dthp_model returned after its fill, walk, accumulation and
\* += all changed its buffer (lambda_I came in positive, C_I grew).
C6_Witness ==
    /\ Returned("dthp")
    /\ \E p \in DOMAIN state :
          /\ state[p].lm_I > 0
          /\ call.lm[p] > 0
          /\ result.value[p].C_I > state[p].C_I

Required(fn) ==
    IF fn = "sir" THEN {"gamma"}
    ELSE IF fn = "sirs" THEN {"gamma", "nu_beta"}
    ELSE IF fn = "dthp" THEN {"omega_I"}
    ELSE {}

Listed == {theta_names[i] : i \in DOMAIN theta_names}

\* C7: a call whose theta_names lacks a required parameter raises and
\* returns no state; an absent optional parameter takes its default
\* (nu_beta = 0.1 in SIR and Hawkes, alpha = 0 in SIRS).
C7_MissingRequiredRaises ==
    /\ (call.fn # "none" /\ ~(Required(call.fn) \subseteq Listed)) =>
          result = Raise("KeyError")
    /\ (result.tag = "ok" /\ call.fn \in {"sir", "dthp"} /\ "nu_beta" \notin Listed) =>
          \A p \in DOMAIN call.used.nu_beta : call.used.nu_beta[p] = NuBetaDefault
    /\ (result.tag = "ok" /\ call.fn = "sirs" /\ "alpha" \notin Listed) =>
          \A p \in DOMAIN call.used.alpha : call.used.alpha[p] = AlphaDefault

\* C7 witness: the SIRS kernel was called without nu_beta (which SIR and
\* Hawkes default) and raised.
C7_Witness ==
    /\ call.fn = "sirs"
    /\ "gamma" \in Listed /\ "nu_beta" \notin Listed
    /\ result.tag = "raise"

ZeroHistory == \A ti \in 1..call.t : observed_data[ti] = 0

\* C10: if every observation at steps 0..t-1 is 0, then for every particle
\* the accumulated intensity is 0, the returned lambda_I is 0 and the
\* returned C_I is the input C_I, whatever omega_I, Rt and the lambda_I
\* passed in.
C10_ZeroHistoryNoInfections ==
    (Returned("dthp") /\ ZeroHistory) =>
        \A p \in DOMAIN state :
            /\ call.lm[p] = 0
            /\ result.value[p].lm_I = 0
            /\ result.value[p].C_I = state[p].C_I

\* C10 witness: a call over a non-empty all-zero history, with omega_I > 0,
\* for a particle that came in with lambda_I > 0 and C_I < N.
C10_Witness ==
    /\ Returned("dthp")
    /\ call.t > 0
    /\ ZeroHistory
    /\ \E p \in DOMAIN state :
          /\ state[p].lm_I > 0
          /\ state[p].C_I < N
          /\ call.used.omega_I[p] > 0

\* the number of particles of the last call's ensemble
Particles == IF call.fn = "dthp" THEN Len(state) ELSE Len(y)

\* theta has one row per particle and one column per name
RowPerParticle ==
    /\ Len(theta) = Particles
    /\ \A r \in DOMAIN theta : Len(theta[r]) = Len(theta_names)

\* C8 as stated: with theta one row per particle and one column per name,
\* particle p is advanced with the value in row p of the named parameter's
\* column, for every parameter the kernel used.
C8_OwnRowValue ==
    (result.tag = "ok" /\ RowPerParticle) =>
        \A i \in DOMAIN theta_names : \A p \in 1..Particles :
            call.used[theta_names[i]] # <<>> =>
                call.used[theta_names[i]][p] = theta[p][i]

\* theta is 1-D: one value per parameter
OneDim == \A r \in DOMAIN theta : Len(theta[r]) = 1

\* C9 as stated: when theta (one value per parameter) and theta_names
\* differ in length, the call raises and returns no state.
C9_LengthMismatchRaises ==
    (call.fn # "none" /\ OneDim /\ Len(theta) # Len(theta_names)) =>
        result.tag = "raise"

============================================================================
